---- MODULE Spec2Model ----
(***************************************************************************)
(* Order placement of bite-bite-ready: the Express order routes            *)
(* (server.js), the better-sqlite3 queries behind them (db/queries.js),    *)
(* the schema constraints (db/schema.js) and the connection pragmas        *)
(* (db/init.js).                                                           *)
(*                                                                         *)
(* Abstractions: prices are integers (minor units) instead of IEEE         *)
(* doubles; generated ids (`order_<ms>_<random>`) are fresh serial         *)
(* numbers; a customer name is a tuple of characters so that trimming is   *)
(* computed, not assumed.  A JSON field that is absent from a request is   *)
(* absent from the DOMAIN of the record that models the request.           *)
(***************************************************************************)
EXTENDS Integers, Sequences, FiniteSets, TLC

(***************************************************************************)
(* Bounds of the model                                                     *)
(***************************************************************************)
\* orders kept in the store
MaxOrders == 2
\* items in one request
MaxItems == 2
\* seconds the clock of the store can show
MaxTime == 3

(***************************************************************************)
(* Input domains                                                           *)
(***************************************************************************)
MenuIds == {"m1", "m2"}

\* customer_name values: empty, whitespace only, padded, plain
CustomerNames == {<<>>, <<" ">>, <<" ", "J">>, <<"J">>}

Range(f) == {f[x] : x \in DOMAIN f}

SeqsUpTo(S, n) == UNION {[1..k -> S] : k \in 0..n}

\* s with x put in at position k
InsertAt(s, k, x) == SubSeq(s, 1, k - 1) \o <<x>> \o SubSeq(s, k, Len(s))

\* well-formed order items as the checkout sends them; the price is the
\* caller's, not the catalog's
GoodItems ==
    { [menu_item_id |-> "m1", menu_item_name |-> "A", quantity |-> 2, price |-> 4],
      [menu_item_id |-> "m2", menu_item_name |-> "B", quantity |-> 1, price |-> 5] }

\* order items that break one input constraint each
BadItems ==
    { [menu_item_id |-> "", menu_item_name |-> "A", quantity |-> 1, price |-> 4],
      [menu_item_id |-> "m1", menu_item_name |-> "", quantity |-> 1, price |-> 4],
      [menu_item_id |-> "m1", menu_item_name |-> "A", quantity |-> 0, price |-> 4],
      [menu_item_id |-> "m1", menu_item_name |-> "A", quantity |-> -1, price |-> 4],
      [menu_item_id |-> "m1", menu_item_name |-> "A", quantity |-> 1, price |-> 0],
      [menu_item_id |-> "m1", menu_item_name |-> "A", quantity |-> 1, price |-> -2],
      [menu_item_id |-> "m1", menu_item_name |-> "A", price |-> 4],
      [menu_item_id |-> "m1", menu_item_name |-> "A", quantity |-> 1] }

\* item lists of well-formed items only
GoodLists == SeqsUpTo(GoodItems, MaxItems) \ {<<>>}

\* item lists with one ill-formed item at any position
BadLists ==
    UNION {{InsertAt(s, k, b) : k \in 1..(Len(s) + 1), b \in BadItems} :
               s \in SeqsUpTo(GoodItems, MaxItems - 1)}

Array(s) == [isArray |-> TRUE, elems |-> s]

\* the `items` field of a request: a JSON array, or some other truthy value
ItemsInputs ==
    {Array(s) : s \in GoodLists \cup BadLists \cup {<<>>}}
        \cup {[isArray |-> FALSE, elems |-> <<>>]}

OneGoodList == Array(<<CHOOSE g \in GoodItems : g.menu_item_id = "m1">>)

\* request bodies of POST /api/orders; status and total_price are fields the
\* route does not read, notes stands for the three optional text fields
OrderBodies ==
    {[customer_name |-> <<"J">>, items |-> i] : i \in ItemsInputs}
        \cup {[customer_name |-> n, items |-> OneGoodList] : n \in CustomerNames}
        \cup {[items |-> OneGoodList], [customer_name |-> <<"J">>], [customer_name |-> <<>>]}
        \cup {[customer_name |-> <<"J">>, items |-> OneGoodList, status |-> "completed",
               total_price |-> 99, notes |-> "no onions"]}

ValidStatuses == {"pending", "confirmed", "preparing", "ready", "completed", "cancelled"}

(***************************************************************************)
(* State                                                                   *)
(***************************************************************************)
VARIABLES
    menu_items,     \* table menu_items: id -> [name, price]
    orders,         \* table orders, in rowid order
    order_items,    \* table order_items, in rowid order
    res,            \* the last HTTP response
    now,            \* CURRENT_TIMESTAMP of the store, in seconds
    submitted,      \* history: order id -> the items its request carried
    tx,             \* the createOrder transaction in progress, statement by statement
    rd,             \* a read of orders in progress on a second connection
    cartItems,      \* CartProvider: the cart lines, in the order they were added
    isCartOpen,     \* CartProvider: the cart drawer is open
    isCheckoutOpen, \* Cart: the checkout dialog is open
    isSubmitting,   \* Cart: an order request is under way
    storage,        \* localStorage["foodhub-cart"]
    call,           \* the order request of handleCheckoutSubmit, on its way
    toast,          \* the last toast shown
    page,           \* the route shown: "/" or the id of /menu/:id
    quantity        \* MenuDetail: the quantity selected

\* the state of the server and the state of the browser
server == <<menu_items, orders, order_items, res, now, submitted, tx, rd>>
detail == <<page, quantity>>
client == <<cartItems, isCartOpen, isCheckoutOpen, isSubmitting, storage, call, toast, detail>>

vars == <<server, client>>

(***************************************************************************)
(* JavaScript truthiness of a request field                                *)
(***************************************************************************)
Has(r, f) == f \in DOMAIN r

\* !r.f for a string field: undefined or empty (a customer name is a tuple
\* of characters, a menu id or name an atom)
FalsyName(r, f) == ~Has(r, f) \/ r[f] = <<>>
FalsyText(r, f) == ~Has(r, f) \/ r[f] = ""

\* !r.f for a number field: undefined or 0
FalsyNumber(r, f) == ~Has(r, f) \/ r[f] = 0

IsSpace(c) == c = " "

\* String.prototype.trim
RECURSIVE Trim(_)
Trim(s) ==
    IF s = <<>> THEN <<>>
    ELSE IF IsSpace(Head(s)) THEN Trim(Tail(s))
    ELSE IF IsSpace(s[Len(s)]) THEN Trim(SubSeq(s, 1, Len(s) - 1))
    ELSE s

(***************************************************************************)
(* db/queries.js                                                           *)
(***************************************************************************)
Null == [null |-> TRUE]

\* SQL NULL in a TEXT column
NullText == "NULL"

\* the total with the quantity left out of each line
RECURSIVE totalPriceNoQuantity(_)
totalPriceNoQuantity(items) ==
    IF items = <<>> THEN 0
    ELSE totalPriceNoQuantity(SubSeq(items, 1, Len(items) - 1)) + items[Len(items)].price

\* items.reduce((sum, item) => sum + (item.price * item.quantity), 0)
RECURSIVE totalPrice(_)
totalPrice(items) ==
    IF items = <<>> THEN 0
    ELSE totalPrice(SubSeq(items, 1, Len(items) - 1))
             + items[Len(items)].price * items[Len(items)].quantity

\* the read with name and price joined from menu_items instead of read from
\* the snapshot columns of order_items
getOrderByIdJoin(ords, oitems, id) ==
    IF \E i \in DOMAIN ords : ords[i].id = id
    THEN LET order == ords[CHOOSE i \in DOMAIN ords : ords[i].id = id]
             mine == SelectSeq(oitems, LAMBDA r : r.order_id = id)
         IN  [id |-> order.id, customer_name |-> order.customer_name,
              notes |-> order.notes, total_price |-> order.total_price, status |-> order.status,
              created_at |-> order.created_at, updated_at |-> order.updated_at,
              items |-> [k \in DOMAIN mine |->
                            IF mine[k].menu_item_id \in DOMAIN menu_items
                            THEN [mine[k] EXCEPT
                                     !.menu_item_name = menu_items[mine[k].menu_item_id].name,
                                     !.price = menu_items[mine[k].menu_item_id].price]
                            ELSE mine[k]]]
    ELSE [null |-> TRUE]

\* SELECT * FROM orders WHERE id = ?, then SELECT * FROM order_items WHERE order_id = ?
getOrderById(ords, oitems, id) ==
    IF \E i \in DOMAIN ords : ords[i].id = id
    THEN LET order == ords[CHOOSE i \in DOMAIN ords : ords[i].id = id]
         IN  [id |-> order.id, customer_name |-> order.customer_name,
              notes |-> order.notes, total_price |-> order.total_price, status |-> order.status,
              created_at |-> order.created_at, updated_at |-> order.updated_at,
              items |-> SelectSeq(oitems, LAMBDA r : r.order_id = id)]
    ELSE Null

\* the WHERE clause of a read of orders
Matches(q, order) ==
    CASE q.kind = "byId" -> order.id = q.id
      [] q.kind = "all" -> TRUE
      [] q.kind = "byStatus" -> order.status = q.status

\* the header rows a read selects, in an order its ORDER BY allows:
\* created_at DESC, rows of the same second in any order
Selected(q, ords) ==
    LET hit == {i \in DOMAIN ords : Matches(q, ords[i])}
    IN  {s \in [1..Cardinality(hit) -> hit] :
            /\ \A a, b \in DOMAIN s : a # b => s[a] # s[b]
            /\ \A a, b \in DOMAIN s :
                   a < b => ords[s[a]].created_at >= ords[s[b]].created_at}

\* orders.map(order => ({...order, items: itemsStmt.all(order.id)})) over the
\* rows selected in the order s
WithItems(db, s) ==
    [k \in DOMAIN s |-> getOrderById(db.orders, db.order_items, db.orders[s[k]].id)]

\* getAllOrders(): the results it can return
getAllOrders(db) == {WithItems(db, s) : s \in Selected([kind |-> "all"], db.orders)}

\* the read of one status with its WHERE clause left out
getOrdersByStatusAll(db, status) ==
    {WithItems(db, s) : s \in Selected([kind |-> "all"], db.orders)}

\* getOrdersByStatus(status): the results it can return
getOrdersByStatus(db, status) ==
    {WithItems(db, s) : s \in Selected([kind |-> "byStatus", status |-> status], db.orders)}

\* the ids the generators have not handed out yet: one past the rows stored
NewOrderId(ords) == Len(ords) + 1
NewItemId(oitems) == Len(oitems) + 1

\* INSERT INTO orders: PRIMARY KEY and CHECK(status IN ...) of the schema (the
\* NOT NULL columns are bound to values the route has found truthy)
InsertOrderRow(db, row) ==
    IF /\ \A i \in DOMAIN db.orders : db.orders[i].id # row.id
       /\ row.status \in ValidStatuses
    THEN [db EXCEPT !.orders = Append(@, row)]
    ELSE [db EXCEPT !.ok = FALSE]

\* INSERT INTO order_items: PRIMARY KEY and the two FOREIGN KEYs of the schema,
\* enforced because init.js sets foreign_keys = ON
InsertItemRow(db, row) ==
    IF /\ \A i \in DOMAIN db.order_items : db.order_items[i].id # row.id
       /\ \E i \in DOMAIN db.orders : db.orders[i].id = row.order_id
       /\ row.menu_item_id \in DOMAIN db.menu_items
    THEN [db EXCEPT !.order_items = Append(@, row)]
    ELSE [db EXCEPT !.ok = FALSE]

\* items.forEach(item => itemStmt.run(...)): a failed statement throws and ends
\* the loop
RECURSIVE InsertItems(_, _, _)
InsertItems(db, orderId, items) ==
    IF items = <<>> \/ ~db.ok THEN db
    ELSE InsertItems(
             InsertItemRow(db, [id |-> NewItemId(db.order_items),
                                order_id |-> orderId,
                                menu_item_id |-> Head(items).menu_item_id,
                                menu_item_name |-> Head(items).menu_item_name,
                                quantity |-> Head(items).quantity,
                                price |-> Head(items).price]),
             orderId, Tail(items))

\* the statements kept as they ran, with no ROLLBACK
TransactionNoRollback(before, after) == after

\* db.transaction(fn)(): COMMIT when fn returns, ROLLBACK when it throws
Transaction(before, after) ==
    IF after.ok THEN after
    ELSE [before EXCEPT !.ok = FALSE]

\* createOrder with its statements run outside db.transaction
createOrderNoTransaction(db, orderData, items) ==
    LET orderId == NewOrderId(db.orders)
        header == [id |-> orderId,
                   customer_name |-> orderData.customer_name,
                   notes |-> orderData.notes,
                   total_price |-> totalPrice(items),
                   status |-> "pending",
                   created_at |-> db.now,
                   updated_at |-> db.now]
        after == InsertItems(InsertOrderRow(db, header), orderId, items)
    IN  [db |-> [after EXCEPT !.ok = TRUE],
         threw |-> ~after.ok,
         order |-> IF after.ok THEN getOrderById(after.orders, after.order_items, orderId)
                   ELSE Null]

\* createOrder writing another status literal into the header
createOrderConfirmed(db, orderData, items) ==
    LET orderId == NewOrderId(db.orders)
        header == [id |-> orderId,
                   customer_name |-> orderData.customer_name,
                   notes |-> orderData.notes,
                   total_price |-> totalPrice(items),
                   status |-> "confirmed",
                   created_at |-> db.now,
                   updated_at |-> db.now]
        after == Transaction(db, InsertItems(InsertOrderRow(db, header), orderId, items))
    IN  [db |-> [after EXCEPT !.ok = TRUE],
         threw |-> ~after.ok,
         order |-> IF after.ok THEN getOrderById(after.orders, after.order_items, orderId)
                   ELSE Null]

\* createOrder(orderData, items): the tables afterwards, whether it threw, and
\* the order it returned
createOrder(db, orderData, items) ==
    LET orderId == NewOrderId(db.orders)
        header == [id |-> orderId,
                   customer_name |-> orderData.customer_name,
                   notes |-> orderData.notes,
                   total_price |-> totalPrice(items),
                   status |-> "pending",
                   created_at |-> db.now,
                   updated_at |-> db.now]
        after == Transaction(db, InsertItems(InsertOrderRow(db, header), orderId, items))
    IN  [db |-> [after EXCEPT !.ok = TRUE],
         threw |-> ~after.ok,
         order |-> IF after.ok THEN getOrderById(after.orders, after.order_items, orderId)
                   ELSE Null]

\* updateOrderStatus that leaves a completed or cancelled order alone
updateOrderStatusTerminal(db, id, status) ==
    LET hit == \E i \in DOMAIN db.orders :
                   db.orders[i].id = id /\ db.orders[i].status \notin {"completed", "cancelled"}
        after == [db EXCEPT !.orders =
                     [i \in DOMAIN @ |-> IF @[i].id = id
                                         THEN [@[i] EXCEPT !.status = status,
                                                           !.updated_at = db.now]
                                         ELSE @[i]]]
    IN  IF hit
        THEN [db |-> after, threw |-> FALSE,
              order |-> getOrderById(after.orders, after.order_items, id)]
        ELSE [db |-> db, threw |-> FALSE, order |-> Null]

\* the UPDATE without its WHERE clause: every row is rewritten
updateOrderStatusNoWhere(db, id, status) ==
    LET after == [db EXCEPT !.orders =
                     [i \in DOMAIN @ |-> [@[i] EXCEPT !.status = status,
                                                       !.updated_at = db.now]]]
    IN  IF db.orders # <<>> /\ status \notin ValidStatuses
        THEN [db |-> db, threw |-> TRUE, order |-> Null]
        ELSE [db |-> after, threw |-> FALSE,
              order |-> getOrderById(after.orders, after.order_items, id)]

\* updateOrderStatus that also recomputes the total from the live catalog
\* prices of the order's items
updateOrderStatusRecompute(db, id, status) ==
    LET hit == \E i \in DOMAIN db.orders : db.orders[i].id = id
        mine == SelectSeq(db.order_items, LAMBDA r : r.order_id = id)
        live == [k \in DOMAIN mine |->
                    [quantity |-> mine[k].quantity,
                     price |-> IF mine[k].menu_item_id \in DOMAIN db.menu_items
                               THEN db.menu_items[mine[k].menu_item_id].price
                               ELSE mine[k].price]]
        after == [db EXCEPT !.orders =
                     [i \in DOMAIN @ |-> IF @[i].id = id
                                         THEN [@[i] EXCEPT !.status = status,
                                                           !.total_price = totalPrice(live),
                                                           !.updated_at = db.now]
                                         ELSE @[i]]]
    IN  IF hit /\ status \notin ValidStatuses
        THEN [db |-> db, threw |-> TRUE, order |-> Null]
        ELSE IF hit
        THEN [db |-> after, threw |-> FALSE,
              order |-> getOrderById(after.orders, after.order_items, id)]
        ELSE [db |-> db, threw |-> FALSE, order |-> Null]

\* updateOrderStatus(id, status): UPDATE orders SET status ... WHERE id = @id,
\* under the CHECK(status IN ...) of the schema
updateOrderStatus(db, id, status) ==
    LET hit == \E i \in DOMAIN db.orders : db.orders[i].id = id
        after == [db EXCEPT !.orders =
                     [i \in DOMAIN @ |-> IF @[i].id = id
                                         THEN [@[i] EXCEPT !.status = status,
                                                           !.updated_at = db.now]
                                         ELSE @[i]]]
    IN  IF hit /\ status \notin ValidStatuses
        THEN [db |-> db, threw |-> TRUE, order |-> Null]
        ELSE IF hit
        THEN [db |-> after, threw |-> FALSE,
              order |-> getOrderById(after.orders, after.order_items, id)]
        ELSE [db |-> db, threw |-> FALSE, order |-> Null]

\* createMenuItem(item): INSERT INTO menu_items under its PRIMARY KEY
createMenuItem(db, item) ==
    IF item.id \in DOMAIN db.menu_items
    THEN [db |-> db, threw |-> TRUE]
    ELSE [db |-> [db EXCEPT !.menu_items =
                     [m \in DOMAIN @ \cup {item.id} |->
                         IF m = item.id THEN [name |-> item.name, price |-> item.price]
                         ELSE @[m]]],
          threw |-> FALSE]

\* the columns updateMenuItem lets through that the model keeps
allowedFields == {"name", "price"}

\* updateMenuItem(id, updates): only allow-listed keys reach the UPDATE
updateMenuItem(db, id, updates) ==
    LET updateFields == DOMAIN updates \cap allowedFields
    IN  IF updateFields = {}
        THEN [db |-> db, threw |-> TRUE, found |-> FALSE]
        ELSE IF id \in DOMAIN db.menu_items
        THEN [db |-> [db EXCEPT !.menu_items[id] =
                         [f \in DOMAIN @ |-> IF f \in updateFields THEN updates[f] ELSE @[f]]],
              threw |-> FALSE, found |-> TRUE]
        ELSE [db |-> db, threw |-> FALSE, found |-> FALSE]

\* deleteMenuItem(id): DELETE FROM menu_items, refused by the FOREIGN KEY of
\* order_items.menu_item_id (no ON DELETE action) while a row references it
deleteMenuItem(db, id) ==
    IF id \notin DOMAIN db.menu_items
    THEN [db |-> db, threw |-> FALSE, deleted |-> FALSE]
    ELSE IF \E i \in DOMAIN db.order_items : db.order_items[i].menu_item_id = id
    THEN [db |-> db, threw |-> TRUE, deleted |-> FALSE]
    ELSE [db |-> [db EXCEPT !.menu_items = [m \in DOMAIN @ \ {id} |-> @[m]]],
          threw |-> FALSE, deleted |-> TRUE]

(***************************************************************************)
(* server.js: the routes                                                   *)
(***************************************************************************)
Fail(route, code, msg) == [route |-> route, status |-> code, success |-> FALSE, error |-> msg]
Ok(route, code, data) == [route |-> route, status |-> code, success |-> TRUE, data |-> data]

PostOrdersRoute == "POST /api/orders"
PutStatusRoute == "PUT /api/orders/:id/status"
GetOrderRoute == "GET /api/orders/:id"
GetOrdersRoute == "GET /api/orders"
GetByStatusRoute == "GET /api/orders/status/:status"
PostMenuRoute == "POST /api/menu"
PutMenuRoute == "PUT /api/menu/:id"
DeleteMenuRoute == "DELETE /api/menu/:id"

\* the checks of one item, in the order of the route
ItemError(item) ==
    IF \/ FalsyText(item, "menu_item_id") \/ FalsyText(item, "menu_item_name")
       \/ FalsyNumber(item, "quantity") \/ FalsyNumber(item, "price")
    THEN "Each item must have menu_item_id, menu_item_name, quantity, and price"
    ELSE IF item.quantity <= 0 THEN "Item quantity must be greater than 0"
    ELSE IF item.price <= 0 THEN "Item price must be greater than 0"
    ELSE "none"

\* the loop checking the first item only
ItemsErrorFirstOnly(items) ==
    IF items = <<>> THEN "none" ELSE ItemError(Head(items))

\* for (const item of items): the first failing item answers
RECURSIVE ItemsError(_)
ItemsError(items) ==
    IF items = <<>> THEN "none"
    ELSE IF ItemError(Head(items)) # "none" THEN ItemError(Head(items))
    ELSE ItemsError(Tail(items))

\* the validation without `items.length === 0`
OrderErrorNoLength(body) ==
    IF FalsyName(body, "customer_name") THEN "Customer name is required"
    ELSE IF ~Has(body, "items") \/ ~body.items.isArray
    THEN "Order must contain at least one item"
    ELSE ItemsError(body.items.elems)

\* the validation of POST /api/orders: the message of the first check that
\* fails, in the order of the route
OrderError(body) ==
    IF FalsyName(body, "customer_name") THEN "Customer name is required"
    ELSE IF ~Has(body, "items") \/ ~body.items.isArray \/ Len(body.items.elems) = 0
    THEN "Order must contain at least one item"
    ELSE ItemsError(body.items.elems)

\* the orderData the route hands to createOrder, as createOrder binds it:
\* notes: orderData.notes || null
OrderData(body) ==
    [customer_name |-> body.customer_name,
     notes |-> IF FalsyText(body, "notes") THEN NullText ELSE body.notes]

\* the route storing the total_price of the request when it carries one
PostOrderClientTotal(db, body) ==
    IF OrderError(body) # "none"
    THEN [db |-> db, res |-> Fail(PostOrdersRoute, 400, OrderError(body))]
    ELSE LET r == createOrder(db, OrderData(body), body.items.elems)
             sent == IF Has(body, "total_price") THEN body.total_price
                     ELSE totalPrice(body.items.elems)
             kept == [r.db EXCEPT !.orders =
                         [i \in DOMAIN @ |-> IF i = Len(@)
                                             THEN [@[i] EXCEPT !.total_price = sent]
                                             ELSE @[i]]]
         IN  IF r.threw
             THEN [db |-> r.db, res |-> Fail(PostOrdersRoute, 500, "Failed to create order")]
             ELSE [db |-> kept,
                   res |-> Ok(PostOrdersRoute, 201,
                              getOrderById(kept.orders, kept.order_items, r.order.id))]

\* POST /api/orders: the response and the tables afterwards
PostOrder(db, body) ==
    IF OrderError(body) # "none"
    THEN [db |-> db, res |-> Fail(PostOrdersRoute, 400, OrderError(body))]
    ELSE LET r == createOrder(db, OrderData(body), body.items.elems)
         IN  IF r.threw
             THEN [db |-> r.db, res |-> Fail(PostOrdersRoute, 500, "Failed to create order")]
             ELSE [db |-> r.db, res |-> Ok(PostOrdersRoute, 201, r.order)]

\* the route with the check of the status left out
PutOrderStatusNoValidation(db, id, body) ==
    LET r == updateOrderStatus(db, id, IF Has(body, "status") THEN body.status ELSE "")
    IN  IF r.threw
        THEN [db |-> r.db, res |-> Fail(PutStatusRoute, 500, "Failed to update order status")]
        ELSE IF r.order = Null
        THEN [db |-> r.db, res |-> Fail(PutStatusRoute, 404, "Order not found")]
        ELSE [db |-> r.db, res |-> Ok(PutStatusRoute, 200, r.order)]

\* PUT /api/orders/:id/status
PutOrderStatus(db, id, body) ==
    IF FalsyText(body, "status") \/ body.status \notin ValidStatuses
    THEN [db |-> db, res |-> Fail(PutStatusRoute, 400, "Invalid status. Must be: pending, confirmed, preparing, ready, completed, or cancelled")]
    ELSE LET r == updateOrderStatus(db, id, body.status)
         IN  IF r.threw
             THEN [db |-> r.db, res |-> Fail(PutStatusRoute, 500, "Failed to update order status")]
             ELSE IF r.order = Null
             THEN [db |-> r.db, res |-> Fail(PutStatusRoute, 404, "Order not found")]
             ELSE [db |-> r.db, res |-> Ok(PutStatusRoute, 200, r.order)]

\* GET /api/orders/:id
GetOrder(db, id) ==
    IF getOrderById(db.orders, db.order_items, id) = Null
    THEN Fail(GetOrderRoute, 404, "Order not found")
    ELSE Ok(GetOrderRoute, 200, getOrderById(db.orders, db.order_items, id))

\* POST /api/menu (the fields the model keeps: id, name, price)
PostMenu(db, body) ==
    IF FalsyText(body, "id") \/ FalsyText(body, "name") \/ ~Has(body, "price")
    THEN [db |-> db, res |-> Fail(PostMenuRoute, 400, "Missing required fields: id, name, description, price, category, image")]
    ELSE IF body.price <= 0
    THEN [db |-> db, res |-> Fail(PostMenuRoute, 400, "Price must be a positive number")]
    ELSE LET r == createMenuItem(db, body)
         IN  IF r.threw
             THEN [db |-> r.db, res |-> Fail(PostMenuRoute, 409, "Menu item with this ID already exists")]
             ELSE [db |-> r.db, res |-> Ok(PostMenuRoute, 201, r.db.menu_items[body.id])]

\* PUT /api/menu/:id
PutMenu(db, id, updates) ==
    IF Has(updates, "price") /\ updates.price <= 0
    THEN [db |-> db, res |-> Fail(PutMenuRoute, 400, "Price must be a positive number")]
    ELSE LET r == updateMenuItem(db, id, updates)
         IN  IF r.threw
             THEN [db |-> r.db, res |-> Fail(PutMenuRoute, 500, "Failed to update menu item")]
             ELSE IF ~r.found
             THEN [db |-> r.db, res |-> Fail(PutMenuRoute, 404, "Menu item not found")]
             ELSE [db |-> r.db, res |-> Ok(PutMenuRoute, 200, r.db.menu_items[id])]

\* DELETE /api/menu/:id
DeleteMenu(db, id) ==
    LET r == deleteMenuItem(db, id)
    IN  IF r.threw
        THEN [db |-> r.db, res |-> Fail(DeleteMenuRoute, 500, "Failed to delete menu item")]
        ELSE IF ~r.deleted
        THEN [db |-> r.db, res |-> Fail(DeleteMenuRoute, 404, "Menu item not found")]
        ELSE [db |-> r.db, res |-> Ok(DeleteMenuRoute, 200, id)]

\* GET /api/orders: the responses it can give
GetAllOrders(db) ==
    {[route |-> GetOrdersRoute, status |-> 200, success |-> TRUE, data |-> list,
      count |-> Len(list)] : list \in getAllOrders(db)}

\* GET /api/orders/status/:status: the responses it can give (filter is the
\* status the response echoes)
GetOrdersByStatus(db, status) ==
    IF status \notin ValidStatuses
    THEN {Fail(GetByStatusRoute, 400, "Invalid status. Must be: pending, confirmed, preparing, ready, completed, or cancelled")}
    ELSE {[route |-> GetByStatusRoute, status |-> 200, success |-> TRUE, data |-> list,
           count |-> Len(list), filter |-> status] : list \in getOrdersByStatus(db, status)}

(***************************************************************************)
(* Catalog and status inputs                                               *)
(***************************************************************************)
\* the seed of menu_items (two of its rows)
menuData == [m \in MenuIds |-> IF m = "m1" THEN [name |-> "A", price |-> 3]
                               ELSE [name |-> "B", price |-> 5]]

MenuBodies ==
    {[id |-> m, name |-> menuData[m].name, price |-> menuData[m].price] : m \in MenuIds}
        \cup {[id |-> "m1", name |-> "A", price |-> 0]}

MenuUpdates == {[name |-> "C", price |-> 7], [rating |-> 5], [price |-> 0]}

OrderIds == 1..MaxOrders

\* bodies of PUT /api/orders/:id/status
StatusBodies ==
    {[status |-> s] : s \in ValidStatuses \cup {"", "shipped"}} \cup {[state |-> "ready"]}

\* the part of them the creation-centred specification draws from
FewStatusBodies == {[status |-> "confirmed"], [status |-> "shipped"]}

(***************************************************************************)
(* contexts/CartContext.tsx and the Cart component: the browser side        *)
(***************************************************************************)
\* the menu the page shows: the catalog as it was fetched when the page loaded
PageMenu ==
    {[id |-> m, name |-> menuData[m].name, price |-> menuData[m].price] : m \in MenuIds}

\* a toast of sonner
Toast(kind, text) == [kind |-> kind, text |-> text]

\* prev.find((i) => i.id === id)
HasLine(prev, id) == \E k \in DOMAIN prev : prev[k].id = id
Line(prev, id) == prev[CHOOSE k \in DOMAIN prev : prev[k].id = id]

\* addToCart that takes the name and the price of a line again from the item
addToCartRefresh(prev, item) ==
    IF HasLine(prev, item.id)
    THEN [k \in DOMAIN prev |->
             IF prev[k].id = item.id
             THEN [id |-> item.id, name |-> item.name, price |-> item.price,
                   quantity |-> prev[k].quantity + 1]
             ELSE prev[k]]
    ELSE Append(prev, [id |-> item.id, name |-> item.name, price |-> item.price,
                       quantity |-> 1])

\* addToCart(item): the updater of setCartItems
addToCart(prev, item) ==
    IF HasLine(prev, item.id)
    THEN [k \in DOMAIN prev |->
             IF prev[k].id = item.id THEN [prev[k] EXCEPT !.quantity = @ + 1] ELSE prev[k]]
    ELSE Append(prev, [id |-> item.id, name |-> item.name, price |-> item.price,
                       quantity |-> 1])

\* updateQuantity that keeps a line whose quantity has come to 0
updateQuantityKeepZero(prev, id, delta) ==
    IF ~HasLine(prev, id) THEN prev
    ELSE IF Line(prev, id).quantity + delta < 0
    THEN SelectSeq(prev, LAMBDA i : i.id # id)
    ELSE [k \in DOMAIN prev |->
             IF prev[k].id = id THEN [prev[k] EXCEPT !.quantity = @ + delta] ELSE prev[k]]

\* updateQuantity(id, delta): the updater of setCartItems
updateQuantity(prev, id, delta) ==
    IF ~HasLine(prev, id) THEN prev
    ELSE IF Line(prev, id).quantity + delta <= 0
    THEN SelectSeq(prev, LAMBDA i : i.id # id)
    ELSE [k \in DOMAIN prev |->
             IF prev[k].id = id THEN [prev[k] EXCEPT !.quantity = @ + delta] ELSE prev[k]]

\* removeFromCart(id)
removeFromCart(prev, id) == SelectSeq(prev, LAMBDA i : i.id # id)

\* clearCart that keeps the lines
clearCartKeep(prev) == prev

\* clearCart(): setCartItems([])
clearCart(prev) == <<>>

\* cartTotal that adds each line's price once
RECURSIVE cartTotalNoQuantity(_)
cartTotalNoQuantity(items) ==
    IF items = <<>> THEN 0
    ELSE cartTotalNoQuantity(SubSeq(items, 1, Len(items) - 1)) + items[Len(items)].price

\* cartTotal: cartItems.reduce((sum, item) => sum + item.price * item.quantity, 0)
RECURSIVE cartTotal(_)
cartTotal(items) ==
    IF items = <<>> THEN 0
    ELSE cartTotal(SubSeq(items, 1, Len(items) - 1))
             + items[Len(items)].price * items[Len(items)].quantity

\* cartItemCount: cartItems.reduce((sum, item) => sum + item.quantity, 0)
RECURSIVE cartItemCount(_)
cartItemCount(items) ==
    IF items = <<>> THEN 0
    ELSE cartItemCount(SubSeq(items, 1, Len(items) - 1)) + items[Len(items)].quantity

\* total of the Cart component, over the items it is rendered with
RECURSIVE total(_)
total(items) ==
    IF items = <<>> THEN 0
    ELSE total(SubSeq(items, 1, Len(items) - 1))
             + items[Len(items)].price * items[Len(items)].quantity

\* itemCount of the Cart component
RECURSIVE itemCount(_)
itemCount(items) ==
    IF items = <<>> THEN 0
    ELSE itemCount(SubSeq(items, 1, Len(items) - 1)) + items[Len(items)].quantity

\* the items useMenu can hand to the page over the fetches of its query: the
\* seeded menu, and item m1 as it reads after the admin renamed and repriced it
menuItems ==
    PageMenu \cup {[id |-> "m1", name |-> "A2", price |-> 4]}

\* ids a consumer can name: those of the menu and one that no line ever has
LineIds == MenuIds \cup {"m9"}

\* MenuDetail: the largest quantity the selector goes to
SelectorMax == 99

\* incrementQuantity: setQuantity((prev) => Math.min(prev + 1, 99))
incrementQuantity(prev) == IF prev + 1 < SelectorMax THEN prev + 1 ELSE SelectorMax

\* decrementQuantity: setQuantity((prev) => Math.max(prev - 1, 1))
decrementQuantity(prev) == IF prev - 1 > 1 THEN prev - 1 ELSE 1

\* handleAddToCart that adds the item once whatever the quantity selected
handleAddToCartOnce(prev, menuItem, n) == addToCart(prev, menuItem)

\* handleAddToCart: for (let i = 0; i < quantity; i++) addToCart(menuItem);
\* the n updaters run one after the other on the cart of the next render
RECURSIVE handleAddToCart(_, _, _)
handleAddToCart(prev, menuItem, n) ==
    IF n <= 0 THEN prev
    ELSE addToCart(handleAddToCart(prev, menuItem, n - 1), menuItem)

\* the toasts of the n updaters of handleAddToCart
RECURSIVE AddToasts(_, _, _)
AddToasts(prev, menuItem, n) ==
    IF n <= 0 THEN <<>>
    ELSE Append(AddToasts(prev, menuItem, n - 1),
                IF HasLine(handleAddToCart(prev, menuItem, n - 1), menuItem.id)
                THEN Toast("success", <<"Added another ", menuItem.name, " to cart">>)
                ELSE Toast("success", <<"Added ", menuItem.name, " to cart">>))

\* no value under the key of localStorage
NoBlob == [missing |-> TRUE]

\* JSON.stringify(cartItems) and JSON.parse(storedCart), for the blobs that
\* saveCartToStorage writes
Stringify(items) == [json |-> items]
Parse(blob) == blob.json

\* loadCartFromStorage()
loadCartFromStorage(blob) == IF blob = NoBlob THEN <<>> ELSE Parse(blob)

\* saveCartToStorage(cartItems)
saveCartToStorage(items) == Stringify(items)

\* handleCheckoutClick that opens the dialog over any cart
handleCheckoutClickNoCheck(items) ==
    [isCheckoutOpen |-> TRUE, toast |-> <<>>]

\* handleCheckoutClick(): whether the dialog opens, and the toasts shown
handleCheckoutClick(items) ==
    IF Len(items) = 0
    THEN [isCheckoutOpen |-> FALSE, toast |-> <<Toast("error", "Your cart is empty")>>]
    ELSE [isCheckoutOpen |-> TRUE, toast |-> <<>>]

\* the mapping that sends every line with quantity 1
orderItemsUnit(items) ==
    [k \in DOMAIN items |->
        [menu_item_id |-> items[k].id, menu_item_name |-> items[k].name,
         quantity |-> 1, price |-> items[k].price]]

\* items.map(item => ({menu_item_id, menu_item_name, quantity, price}))
orderItems(items) ==
    [k \in DOMAIN items |->
        [menu_item_id |-> items[k].id, menu_item_name |-> items[k].name,
         quantity |-> items[k].quantity, price |-> items[k].price]]

\* the body handleCheckoutSubmit hands to orderApi.submitOrder
SubmitBody(formData, items) ==
    [customer_name |-> formData.customer_name, items |-> Array(orderItems(items)),
     notes |-> formData.notes]

\* checkoutFormSchema: customer_name is z.string().min(2)
FormValid(values) == Len(values.customer_name) >= 2

\* fetch itself rejected: the request never reached the server
NetworkError == [route |-> "fetch", status |-> 0]

\* fetchApi: the call resolves when response.ok and data.success
Resolves(response) ==
    /\ response.status \in 200..299
    /\ response.success

\* fetchApi: the message of the ApiError it throws otherwise
ErrorMessage(response) ==
    IF response = NetworkError THEN "Failed to fetch"
    ELSE IF response.status = 400 THEN "API request failed: Bad Request"
    ELSE IF response.status = 500 THEN "API request failed: Internal Server Error"
    ELSE "API request failed"

\* handleCheckoutSubmit after its await, whose catch empties the cart too
handleCheckoutSubmitSettledClears(c, st) ==
    IF Resolves(c.response)
    THEN [cartItems |-> clearCart(st.cartItems), isCheckoutOpen |-> FALSE,
          isCartOpen |-> FALSE, isSubmitting |-> FALSE,
          toast |-> <<Toast("success", <<"Order placed successfully! Order ID: ",
                                         c.response.data.id>>),
                      Toast("info", "Cart cleared")>>]
    ELSE [cartItems |-> <<>>, isCheckoutOpen |-> st.isCheckoutOpen,
          isCartOpen |-> st.isCartOpen, isSubmitting |-> FALSE,
          toast |-> <<Toast("error", ErrorMessage(c.response))>>]

\* handleCheckoutSubmit after its await, resetting isSubmitting at the end of
\* the try instead of in a finally
handleCheckoutSubmitSettledNoFinally(c, st) ==
    IF Resolves(c.response)
    THEN [cartItems |-> clearCart(st.cartItems), isCheckoutOpen |-> FALSE,
          isCartOpen |-> FALSE, isSubmitting |-> FALSE,
          toast |-> <<Toast("success", <<"Order placed successfully! Order ID: ",
                                         c.response.data.id>>),
                      Toast("info", "Cart cleared")>>]
    ELSE [cartItems |-> st.cartItems, isCheckoutOpen |-> st.isCheckoutOpen,
          isCartOpen |-> st.isCartOpen, isSubmitting |-> TRUE,
          toast |-> <<Toast("error", ErrorMessage(c.response))>>]

\* handleCheckoutSubmit after its await, taking out of the cart on success
\* only the lines of the menu items the order was created with
handleCheckoutSubmitSettledSnapshot(c, st) ==
    IF Resolves(c.response)
    THEN [cartItems |-> SelectSeq(st.cartItems,
                                  LAMBDA line : \A k \in DOMAIN c.response.data.items :
                                                    c.response.data.items[k].menu_item_id # line.id),
          isCheckoutOpen |-> FALSE,
          isCartOpen |-> FALSE, isSubmitting |-> FALSE,
          toast |-> <<Toast("success", <<"Order placed successfully! Order ID: ",
                                         c.response.data.id>>),
                      Toast("info", "Cart cleared")>>]
    ELSE [cartItems |-> st.cartItems, isCheckoutOpen |-> st.isCheckoutOpen,
          isCartOpen |-> st.isCartOpen, isSubmitting |-> FALSE,
          toast |-> <<Toast("error", ErrorMessage(c.response))>>]

\* handleCheckoutSubmit after its await: the rest of the try when the call c
\* resolved, the catch when it threw, and the finally; st is the state of
\* the cart and of the two overlays it runs against
handleCheckoutSubmitSettled(c, st) ==
    IF Resolves(c.response)
    THEN [cartItems |-> clearCart(st.cartItems), isCheckoutOpen |-> FALSE,
          isCartOpen |-> FALSE, isSubmitting |-> FALSE,
          toast |-> <<Toast("success", <<"Order placed successfully! Order ID: ",
                                         c.response.data.id>>),
                      Toast("info", "Cart cleared")>>]
    ELSE [cartItems |-> st.cartItems, isCheckoutOpen |-> st.isCheckoutOpen,
          isCartOpen |-> st.isCartOpen, isSubmitting |-> FALSE,
          toast |-> <<Toast("error", ErrorMessage(c.response))>>]

NoCall == [pc |-> "idle"]

\* the values the checkout form is submitted with
FormInputs ==
    {[customer_name |-> <<"J">>, notes |-> ""], [customer_name |-> <<" ", "J">>, notes |-> ""]}

(***************************************************************************)
(* Actions: one HTTP request each, handled to completion (Node runs a       *)
(* synchronous handler without interleaving)                               *)
(***************************************************************************)
Db == [menu_items |-> menu_items, orders |-> orders, order_items |-> order_items,
       now |-> now, ok |-> TRUE]

NoTx == [pc |-> "idle"]
NoRead == [pc |-> "idle"]

Init ==
    /\ menu_items = menuData
    /\ orders = <<>>
    /\ order_items = <<>>
    /\ res = [route |-> "none", status |-> 0]
    /\ now = 1
    /\ submitted = <<>>
    /\ tx = NoTx
    /\ rd = NoRead
    /\ storage = NoBlob
    /\ cartItems = loadCartFromStorage(NoBlob)
    /\ isCartOpen = FALSE
    /\ isCheckoutOpen = FALSE
    /\ isSubmitting = FALSE
    /\ call = NoCall
    /\ toast = <<>>
    /\ page = "/"
    /\ quantity = 1

Store(db) ==
    /\ menu_items' = db.menu_items
    /\ orders' = db.orders
    /\ order_items' = db.order_items

\* the history of what each created order was asked to contain
Remember(response, items) ==
    submitted' = IF response.status = 201
                 THEN (response.data.id :> items) @@ submitted
                 ELSE submitted

PostOrders(body) ==
    /\ tx.pc = "idle"
    /\ Len(orders) < MaxOrders
    /\ LET out == PostOrder(Db, body)
       IN  /\ Store(out.db)
           /\ res' = out.res
           /\ Remember(out.res, IF out.res.status = 201 THEN body.items.elems ELSE <<>>)
    /\ UNCHANGED <<now, tx, rd, client>>

PutStatus(id, body) ==
    /\ tx.pc = "idle"
    /\ LET out == PutOrderStatus(Db, id, body)
       IN  Store(out.db) /\ res' = out.res
    /\ UNCHANGED <<now, submitted, tx, rd, client>>

GetOrders(id) ==
    /\ tx.pc = "idle"
    /\ res' = GetOrder(Db, id)
    /\ UNCHANGED <<menu_items, orders, order_items, now, submitted, tx, rd, client>>

GetAll ==
    /\ tx.pc = "idle"
    /\ res' \in GetAllOrders(Db)
    /\ UNCHANGED <<menu_items, orders, order_items, now, submitted, tx, rd, client>>

GetByStatus(status) ==
    /\ tx.pc = "idle"
    /\ res' \in GetOrdersByStatus(Db, status)
    /\ UNCHANGED <<menu_items, orders, order_items, now, submitted, tx, rd, client>>

PostMenuItem(body) ==
    /\ tx.pc = "idle"
    /\ LET out == PostMenu(Db, body)
       IN  Store(out.db) /\ res' = out.res
    /\ UNCHANGED <<now, submitted, tx, rd, client>>

PutMenuItem(id, updates) ==
    /\ tx.pc = "idle"
    /\ LET out == PutMenu(Db, id, updates)
       IN  Store(out.db) /\ res' = out.res
    /\ UNCHANGED <<now, submitted, tx, rd, client>>

DeleteMenuItem(id) ==
    /\ tx.pc = "idle"
    /\ LET out == DeleteMenu(Db, id)
       IN  Store(out.db) /\ res' = out.res
    /\ UNCHANGED <<now, submitted, tx, rd, client>>

\* a second passes
Tick ==
    /\ tx.pc = "idle"
    /\ now < MaxTime
    /\ now' = now + 1
    /\ UNCHANGED <<menu_items, orders, order_items, res, submitted, tx, rd, client>>

Next ==
    \/ \E body \in OrderBodies : PostOrders(body)
    \/ \E id \in OrderIds, body \in FewStatusBodies : PutStatus(id, body)
    \/ \E id \in OrderIds : GetOrders(id)
    \/ \E body \in MenuBodies : PostMenuItem(body)
    \/ \E id \in MenuIds, updates \in MenuUpdates : PutMenuItem(id, updates)
    \/ \E id \in MenuIds : DeleteMenuItem(id)

Spec == Init /\ [][Next]_vars

(***************************************************************************)
(* The status lifecycle: every status literal, few order contents          *)
(***************************************************************************)
FewOrderBodies == {[customer_name |-> <<"J">>, items |-> OneGoodList]}

\* the :status parameters of the list route
StatusFilters == {"pending", "completed", "shipped"}

NextStatus ==
    \/ \E body \in FewOrderBodies : PostOrders(body)
    \/ \E id \in OrderIds, body \in StatusBodies : PutStatus(id, body)
    \/ \E id \in OrderIds : GetOrders(id)
    \/ \E status \in StatusFilters : GetByStatus(status)

SpecStatus == Init /\ [][NextStatus]_vars

(***************************************************************************)
(* The timestamps: the clock moves between requests                        *)
(***************************************************************************)
\* the bodies it submits: the plain one and one with notes and two lines
TimeOrderBodies ==
    FewOrderBodies
        \cup {[customer_name |-> <<" ", "J">>, notes |-> "no onions",
               items |-> Array(<<CHOOSE g \in GoodItems : g.menu_item_id = "m2",
                                 CHOOSE g \in GoodItems : g.menu_item_id = "m1">>)]}

NextTime ==
    \/ \E body \in TimeOrderBodies : PostOrders(body)
    \/ \E id \in OrderIds, body \in FewStatusBodies : PutStatus(id, body)
    \/ GetAll
    \/ \E status \in {"pending"} : GetByStatus(status)
    \/ Tick

SpecTime == Init /\ [][NextTime]_vars

(***************************************************************************)
(* The browser: one event handler each, against the server above.  The     *)
(* drawer and the dialog are modal: the page takes no input while the       *)
(* drawer is open, nor the drawer while the dialog is open over it.         *)
(***************************************************************************)
\* the largest quantity a line is taken to
MaxQuantity == 2

\* the orders the server takes from the browser
MaxCheckouts == 1

\* useEffect(() => saveCartToStorage(cartItems), [cartItems]) has run: React
\* runs the effect of a render before it handles the next event
Persisted == storage = saveCartToStorage(cartItems)

Shown(toasts) == IF toasts = <<>> THEN toast ELSE toasts

\* the effect that follows a render with new cartItems (and the mount)
SaveCart ==
    /\ ~Persisted
    /\ storage' = saveCartToStorage(cartItems)
    /\ UNCHANGED <<detail, server, cartItems, isCartOpen, isCheckoutOpen, isSubmitting, call, toast>>

\* "Add to Cart" on the page
AddToCart(item) ==
    /\ Persisted
    /\ page = "/"
    /\ ~isCartOpen /\ ~isCheckoutOpen
    /\ HasLine(cartItems, item.id) => Line(cartItems, item.id).quantity < MaxQuantity
    /\ cartItems' = addToCart(cartItems, item)
    /\ toast' = IF HasLine(cartItems, item.id)
                THEN <<Toast("success", <<"Added another ", item.name, " to cart">>)>>
                ELSE <<Toast("success", <<"Added ", item.name, " to cart">>)>>
    /\ UNCHANGED <<detail, server, isCartOpen, isCheckoutOpen, isSubmitting, storage, call>>

\* the minus and plus buttons of a line of the drawer
UpdateQuantity(id, delta) ==
    /\ Persisted
    /\ isCartOpen /\ ~isCheckoutOpen
    /\ HasLine(cartItems, id)
    /\ Line(cartItems, id).quantity + delta <= MaxQuantity
    /\ cartItems' = updateQuantity(cartItems, id, delta)
    /\ toast' = IF Line(cartItems, id).quantity + delta <= 0
                THEN <<Toast("info", "Item removed from cart")>>
                ELSE toast
    /\ UNCHANGED <<detail, server, isCartOpen, isCheckoutOpen, isSubmitting, storage, call>>

\* the trash button of a line of the drawer
RemoveFromCart(id) ==
    /\ Persisted
    /\ isCartOpen /\ ~isCheckoutOpen
    /\ HasLine(cartItems, id)
    /\ cartItems' = removeFromCart(cartItems, id)
    /\ toast' = <<Toast("info", "Item removed from cart")>>
    /\ UNCHANGED <<detail, server, isCartOpen, isCheckoutOpen, isSubmitting, storage, call>>

\* the cart button of the page
OpenCart ==
    /\ Persisted
    /\ ~isCartOpen /\ ~isCheckoutOpen
    /\ isCartOpen' = TRUE
    /\ UNCHANGED <<detail, server, cartItems, isCheckoutOpen, isSubmitting, storage, call, toast>>

\* the drawer is dismissed: onOpenChange of the Sheet
CloseCart ==
    /\ Persisted
    /\ isCartOpen /\ ~isCheckoutOpen
    /\ isCartOpen' = FALSE
    /\ UNCHANGED <<detail, server, cartItems, isCheckoutOpen, isSubmitting, storage, call, toast>>

\* handleCheckoutClick, called in any state of the open drawer (the drawer
\* renders its Checkout button over a cart with lines only)
CheckoutClick ==
    /\ Persisted
    /\ isCartOpen /\ ~isCheckoutOpen
    /\ LET r == handleCheckoutClick(cartItems)
       IN  /\ isCheckoutOpen' = r.isCheckoutOpen
           /\ toast' = Shown(r.toast)
    /\ UNCHANGED <<detail, server, cartItems, isCartOpen, isSubmitting, storage, call>>

\* the dialog is dismissed: onOpenChange of the Dialog (Escape, its close
\* button), also while a request is under way
CloseCheckout ==
    /\ Persisted
    /\ isCheckoutOpen
    /\ isCheckoutOpen' = FALSE
    /\ UNCHANGED <<detail, server, cartItems, isCartOpen, isSubmitting, storage, call, toast>>

\* the form is submitted (its button is disabled while isSubmitting): the
\* schema is checked, then handleCheckoutSubmit runs up to its await
SubmitForm(values) ==
    /\ Persisted
    /\ isCheckoutOpen /\ ~isSubmitting
    /\ IF FormValid(values)
       THEN /\ isSubmitting' = TRUE
            /\ call' = [pc |-> "sent", body |-> SubmitBody(values, cartItems)]
       ELSE UNCHANGED <<isSubmitting, call>>
    /\ UNCHANGED <<detail, server, cartItems, isCartOpen, isCheckoutOpen, storage, toast>>

\* the server handles the request: POST /api/orders
ServerHandles ==
    /\ call.pc = "sent"
    /\ tx.pc = "idle"
    /\ Len(orders) < MaxCheckouts
    /\ LET out == PostOrder(Db, call.body)
       IN  /\ Store(out.db)
           /\ res' = out.res
           /\ Remember(out.res, IF out.res.status = 201 THEN call.body.items.elems ELSE <<>>)
           /\ call' = [pc |-> "answered", response |-> out.res]
    /\ UNCHANGED <<detail, now, tx, rd, cartItems, isCartOpen, isCheckoutOpen, isSubmitting,
                   storage, toast>>

\* the request does not reach the server: fetch rejects
NetworkFails ==
    /\ call.pc = "sent"
    /\ call' = [pc |-> "answered", response |-> NetworkError]
    /\ UNCHANGED <<detail, server, cartItems, isCartOpen, isCheckoutOpen, isSubmitting, storage, toast>>

\* handleCheckoutSubmit after its await: the try, the catch and the finally
SubmitSettled ==
    /\ Persisted
    /\ call.pc = "answered"
    /\ LET r == handleCheckoutSubmitSettled(call, [cartItems |-> cartItems,
                                                   isCheckoutOpen |-> isCheckoutOpen,
                                                   isCartOpen |-> isCartOpen])
       IN  /\ cartItems' = r.cartItems
           /\ isCheckoutOpen' = r.isCheckoutOpen
           /\ isCartOpen' = r.isCartOpen
           /\ isSubmitting' = r.isSubmitting
           /\ toast' = r.toast
    /\ call' = NoCall
    /\ UNCHANGED <<detail, server, storage>>

NextCart ==
    \/ SaveCart
    \/ \E item \in PageMenu : AddToCart(item)
    \/ \E id \in MenuIds, delta \in {-1, 1} : UpdateQuantity(id, delta)
    \/ \E id \in MenuIds : RemoveFromCart(id)
    \/ OpenCart
    \/ CloseCart
    \/ CheckoutClick
    \/ CloseCheckout
    \/ \E values \in FormInputs : SubmitForm(values)
    \/ ServerHandles
    \/ NetworkFails
    \/ SubmitSettled
    \/ \E id \in {"m2"} : DeleteMenuItem(id)

SpecCart == Init /\ [][NextCart]_vars

\* the browser with its scheduling: the effect of a render runs, a request
\* that was sent is answered or fails, and the continuation of an answered
\* request runs once the handler before it, with its effect, is done
SpecCartLive ==
    /\ SpecCart
    /\ WF_vars(SaveCart)
    /\ WF_vars(NetworkFails \/ ServerHandles)
    /\ SF_vars(SubmitSettled)

(***************************************************************************)
(* pages/MenuDetail.tsx: the page of one menu item, with the cart drawer    *)
(* over it.  The two buttons of the selector are disabled at its ends; the  *)
(* handlers are taken to run in any state of the page.                      *)
(***************************************************************************)
\* a card of the menu is clicked (MenuItem.handleCardClick), or the page of
\* an item is left for the menu: MenuDetail mounts with quantity 1
Navigate(to) ==
    /\ Persisted
    /\ ~isCartOpen /\ ~isCheckoutOpen
    /\ (page = "/") # (to = "/")
    /\ page' = to
    /\ quantity' = 1
    /\ UNCHANGED <<server, cartItems, isCartOpen, isCheckoutOpen, isSubmitting, storage,
                   call, toast>>

\* the plus button of the selector
IncrementQuantity ==
    /\ Persisted
    /\ page # "/" /\ ~isCartOpen
    /\ quantity' = incrementQuantity(quantity)
    /\ UNCHANGED <<server, cartItems, isCartOpen, isCheckoutOpen, isSubmitting, storage,
                   call, toast, page>>

\* the minus button of the selector
DecrementQuantity ==
    /\ Persisted
    /\ page # "/" /\ ~isCartOpen
    /\ quantity' = decrementQuantity(quantity)
    /\ UNCHANGED <<server, cartItems, isCartOpen, isCheckoutOpen, isSubmitting, storage,
                   call, toast, page>>

\* "Add n to Cart" of the page, menuItem being the item of the route as the
\* menu holds it
HandleAddToCart(menuItem) ==
    /\ Persisted
    /\ page = menuItem.id /\ ~isCartOpen
    /\ (IF HasLine(cartItems, menuItem.id) THEN Line(cartItems, menuItem.id).quantity ELSE 0)
           + quantity <= MaxQuantity
    /\ cartItems' = handleAddToCart(cartItems, menuItem, quantity)
    /\ toast' = AddToasts(cartItems, menuItem, quantity)
    /\ quantity' = 1
    /\ UNCHANGED <<server, isCartOpen, isCheckoutOpen, isSubmitting, storage, call, page>>

\* the menu page and the page of an item, with the drawer; the items are
\* those the menu holds at the click
NextDetail ==
    \/ SaveCart
    \/ \E to \in MenuIds \cup {"/"} : Navigate(to)
    \/ IncrementQuantity
    \/ DecrementQuantity
    \/ \E menuItem \in menuItems : HandleAddToCart(menuItem)
    \/ \E item \in menuItems : AddToCart(item)
    \/ \E id \in MenuIds, delta \in {-1, 1} : UpdateQuantity(id, delta)
    \/ \E id \in MenuIds : RemoveFromCart(id)
    \/ OpenCart
    \/ CloseCart

SpecDetail == Init /\ [][NextDetail]_vars

(***************************************************************************)
(* The value of CartContext as any consumer of useCart may call it: the     *)
(* four operations with arguments of their declared types, each followed    *)
(* by the effect that saves the cart.                                       *)
(***************************************************************************)
\* the largest |delta| a consumer passes
MaxDelta == 3

Deltas == (0 - MaxDelta)..MaxDelta

\* quantity of the line of id, 0 when there is none
QuantityOf(prev, id) == IF HasLine(prev, id) THEN Line(prev, id).quantity ELSE 0

CallAddToCart(item) ==
    /\ Persisted
    /\ QuantityOf(cartItems, item.id) < MaxQuantity
    /\ cartItems' = addToCart(cartItems, item)
    /\ toast' = AddToasts(cartItems, item, 1)
    /\ UNCHANGED <<detail, server, isCartOpen, isCheckoutOpen, isSubmitting, storage, call>>

CallUpdateQuantity(id, delta) ==
    /\ Persisted
    /\ QuantityOf(cartItems, id) + delta <= MaxQuantity
    /\ cartItems' = updateQuantity(cartItems, id, delta)
    /\ toast' = IF HasLine(cartItems, id) /\ Line(cartItems, id).quantity + delta <= 0
                THEN <<Toast("info", "Item removed from cart")>>
                ELSE toast
    /\ UNCHANGED <<detail, server, isCartOpen, isCheckoutOpen, isSubmitting, storage, call>>

CallRemoveFromCart(id) ==
    /\ Persisted
    /\ cartItems' = removeFromCart(cartItems, id)
    /\ toast' = <<Toast("info", "Item removed from cart")>>
    /\ UNCHANGED <<detail, server, isCartOpen, isCheckoutOpen, isSubmitting, storage, call>>

CallClearCart ==
    /\ Persisted
    /\ cartItems' = clearCart(cartItems)
    /\ toast' = <<Toast("info", "Cart cleared")>>
    /\ UNCHANGED <<detail, server, isCartOpen, isCheckoutOpen, isSubmitting, storage, call>>

NextProvider ==
    \/ SaveCart
    \/ \E item \in menuItems : CallAddToCart(item)
    \/ \E id \in LineIds, delta \in Deltas : CallUpdateQuantity(id, delta)
    \/ \E id \in LineIds : CallRemoveFromCart(id)
    \/ CallClearCart

SpecProvider == Init /\ [][NextProvider]_vars

(***************************************************************************)
(* createOrder statement by statement, against a reader on another         *)
(* connection to the same database file (journal_mode = WAL): the reader's *)
(* statements see committed rows only                                      *)
(***************************************************************************)
\* a reader that sees the rows of the open transaction
IsolationNone(committed, working) == working

\* what a statement outside an open transaction sees of the tables
Isolation(committed, working) == committed

Snapshot == IF tx.pc = "idle" THEN Db ELSE Isolation(Db, tx.work)

ItemRow(db, orderId, item) ==
    [id |-> NewItemId(db.order_items), order_id |-> orderId,
     menu_item_id |-> item.menu_item_id, menu_item_name |-> item.menu_item_name,
     quantity |-> item.quantity, price |-> item.price]

\* createOrder is entered by the route once the body has passed validation;
\* BEGIN, then INSERT INTO orders
TxHeader(body) ==
    /\ tx.pc = "idle"
    /\ Len(orders) < MaxOrders
    /\ OrderError(body) = "none"
    /\ LET orderId == NewOrderId(orders)
           header == [id |-> orderId,
                      customer_name |-> OrderData(body).customer_name,
                      notes |-> OrderData(body).notes,
                      total_price |-> totalPrice(body.items.elems),
                      status |-> "pending",
                      created_at |-> now,
                      updated_at |-> now]
       IN  tx' = [pc |-> "items", id |-> orderId, items |-> body.items.elems,
                  todo |-> body.items.elems, work |-> InsertOrderRow(Db, header)]
    /\ UNCHANGED <<menu_items, orders, order_items, res, now, submitted, rd, client>>

\* one itemStmt.run of the forEach
TxItem ==
    /\ tx.pc = "items"
    /\ tx.work.ok
    /\ tx.todo # <<>>
    /\ tx' = [tx EXCEPT !.work = InsertItemRow(@, ItemRow(@, tx.id, Head(tx.todo))),
                        !.todo = Tail(@)]
    /\ UNCHANGED <<menu_items, orders, order_items, res, now, submitted, rd, client>>

\* COMMIT after the last statement, ROLLBACK after a failed one; createOrder
\* then reads the order back and the route answers
TxEnd ==
    /\ tx.pc = "items"
    /\ ~tx.work.ok \/ tx.todo = <<>>
    /\ LET after == Transaction(Db, tx.work)
           response == IF after.ok
                       THEN Ok(PostOrdersRoute, 201,
                               getOrderById(after.orders, after.order_items, tx.id))
                       ELSE Fail(PostOrdersRoute, 500, "Failed to create order")
       IN  /\ Store(after)
           /\ res' = response
           /\ Remember(response, tx.items)
    /\ tx' = NoTx
    /\ UNCHANGED <<now, rd, client>>

\* the three reads: getOrderById, getAllOrders, getOrdersByStatus
Reads ==
    {[kind |-> "byId", id |-> i] : i \in OrderIds}
        \cup {[kind |-> "all"]}
        \cup {[kind |-> "byStatus", status |-> "pending"]}

\* the first statement of a read: the header rows
ReadHeaders(q) ==
    /\ rd.pc = "idle"
    /\ \E s \in Selected(q, Snapshot.orders) :
           rd' = [pc |-> "items", query |-> q,
                  headers |-> [k \in DOMAIN s |-> Snapshot.orders[s[k]]],
                  got |-> <<>>]
    /\ UNCHANGED <<menu_items, orders, order_items, res, now, submitted, tx, client>>

\* itemsStmt.all(order.id) for the next header row
ReadItems ==
    /\ rd.pc = "items"
    /\ Len(rd.got) < Len(rd.headers)
    /\ LET order == rd.headers[Len(rd.got) + 1]
       IN  rd' = [rd EXCEPT !.got = Append(@,
                      [id |-> order.id, status |-> order.status,
                       items |-> SelectSeq(Snapshot.order_items,
                                           LAMBDA r : r.order_id = order.id)])]
    /\ UNCHANGED <<menu_items, orders, order_items, res, now, submitted, tx, client>>

\* the read returns
ReadDone ==
    /\ rd.pc = "items"
    /\ Len(rd.got) = Len(rd.headers)
    /\ rd' = NoRead
    /\ UNCHANGED <<menu_items, orders, order_items, res, now, submitted, tx, client>>

\* the bodies the concurrent specification submits: they pass validation
ConcBodies == {[customer_name |-> <<"J">>, items |-> Array(s)] : s \in GoodLists}

NextConc ==
    \/ \E body \in ConcBodies : TxHeader(body)
    \/ TxItem
    \/ TxEnd
    \/ \E q \in Reads : ReadHeaders(q)
    \/ ReadItems
    \/ ReadDone
    \/ \E id \in MenuIds : DeleteMenuItem(id)

SpecConc == Init /\ [][NextConc]_vars

(***************************************************************************)
(* Properties                                                              *)
(***************************************************************************)
IsCreated == res.route = PostOrdersRoute /\ res.status = 201
CreateFailed == res.route = PostOrdersRoute /\ res.status = 500
Rejected(msg) == res = Fail(PostOrdersRoute, 400, msg)

SameOrderTables(db) == db.orders = orders /\ db.order_items = order_items

ItemsOf(id) == SelectSeq(order_items, LAMBDA r : r.order_id = id)

\* C1: createOrder is all-or-nothing.  In every reachable state every order
\* header has at least one order item and every order item belongs to an
\* existing header; and a createOrder call in which an insert fails leaves the
\* orders and order_items tables as they were.
C1_AllOrNothing ==
    /\ \A i \in DOMAIN orders : ItemsOf(orders[i].id) # <<>>
    /\ \A j \in DOMAIN order_items :
           \E i \in DOMAIN orders : orders[i].id = order_items[j].order_id
    /\ \A s \in GoodLists :
           LET r == createOrder(Db, [customer_name |-> <<"J">>, notes |-> NullText], s)
           IN  r.threw => SameOrderTables(r.db)

\* a create-order request has failed while orders are stored, in a catalog
\* where a list (m1, m2) fails at its second item insert
C1_Witness ==
    /\ CreateFailed
    /\ Len(orders) >= 1
    /\ "m1" \in DOMAIN menu_items
    /\ "m2" \notin DOMAIN menu_items

\* the sum of price x quantity over a list of lines
RECURSIVE LineSum(_)
LineSum(lines) ==
    IF lines = <<>> THEN 0
    ELSE Head(lines).price * Head(lines).quantity + LineSum(Tail(lines))

\* C2: the order returned by a successful createOrder has total_price equal to
\* the sum of price x quantity over the items that were submitted.
C2_TotalIsSum ==
    IsCreated =>
        /\ res.data.id \in DOMAIN submitted
        /\ res.data.total_price = LineSum(submitted[res.data.id])

\* an order of two different lines has just been returned
C2_Witness ==
    /\ IsCreated
    /\ Len(res.data.items) = 2
    /\ res.data.items[1].quantity # res.data.items[2].quantity
    /\ res.data.items[1].price # res.data.items[2].price

SameLine(row, item) ==
    /\ row.menu_item_name = item.menu_item_name
    /\ row.price = item.price
    /\ row.quantity = item.quantity

\* C3: price snapshot.  Whatever catalog and order operations have run since an
\* order was created, getOrderById returns as many items as were submitted,
\* each with the submitted menu_item_name, price and quantity.
C3_PriceSnapshot ==
    \A id \in DOMAIN submitted :
        LET order == getOrderById(orders, order_items, id)
        IN  /\ order # Null
            /\ Len(order.items) = Len(submitted[id])
            /\ \A k \in DOMAIN order.items : SameLine(order.items[k], submitted[id][k])

\* the first order holds a line of m1 whose catalog row has since been renamed
\* and repriced; m2 has been deleted, the order's status updated, and another
\* order created after it
C3_Witness ==
    /\ Len(orders) = 2
    /\ orders[1].status = "confirmed"
    /\ "m2" \notin DOMAIN menu_items
    /\ "m1" \in DOMAIN menu_items
    /\ \E k \in DOMAIN submitted[1] :
           /\ submitted[1][k].menu_item_id = "m1"
           /\ menu_items["m1"].name # submitted[1][k].menu_item_name
           /\ menu_items["m1"].price # submitted[1][k].price

\* C4: a read that runs while createOrder is in progress (header rows first,
\* item rows in later statements) returns no order with zero items or with
\* part of its submitted items.
C4_NoPartialRead ==
    rd.pc = "items" =>
        \A k \in DOMAIN rd.got :
            /\ rd.got[k].id \in DOMAIN submitted
            /\ rd.got[k].items # <<>>
            /\ Len(rd.got[k].items) = Len(submitted[rd.got[k].id])
            /\ \A j \in DOMAIN rd.got[k].items :
                   SameLine(rd.got[k].items[j], submitted[rd.got[k].id][j])

\* a read is between its statements, with item rows still to fetch, while a
\* transaction has inserted its header and one of its two items
C4_Witness ==
    /\ rd.pc = "items"
    /\ Len(rd.got) < Len(rd.headers)
    /\ tx.pc = "items"
    /\ Len(tx.items) = 2
    /\ Len(tx.todo) = 1
    /\ tx.work.ok

\* C5: whenever POST /api/orders answers 500 (createOrder threw), the orders
\* and order_items tables are what they were before the request.
C5_FailureLeavesNothing ==
    [][(res'.route = PostOrdersRoute /\ res'.status = 500)
           => (orders' = orders /\ order_items' = order_items)]_vars

\* a create-order request has failed in a store that holds orders and items
C5_Witness ==
    /\ CreateFailed
    /\ Len(orders) = 1
    /\ Len(order_items) = 2

NoItemList(body) ==
    \/ ~Has(body, "items")
    \/ ~body.items.isArray
    \/ body.items.elems = <<>>

\* C6: an order whose items are missing, not a list, or an empty list is
\* answered 400 and leaves the orders and order_items tables unchanged.
C6_EmptyItemsRejected ==
    \A body \in OrderBodies :
        NoItemList(body) =>
            LET out == PostOrder(Db, body)
            IN  out.res.status = 400 /\ SameOrderTables(out.db)

\* the empty-list answer has been given in a store that holds an order
C6_Witness ==
    /\ Rejected("Order must contain at least one item")
    /\ Len(orders) >= 1

\* an item with quantity <= 0, price <= 0, or an empty id or name
BrokenItem(item) ==
    \/ Has(item, "quantity") /\ item.quantity <= 0
    \/ Has(item, "price") /\ item.price <= 0
    \/ Has(item, "menu_item_id") /\ item.menu_item_id = ""
    \/ Has(item, "menu_item_name") /\ item.menu_item_name = ""

HasBrokenItem(body) ==
    /\ Has(body, "items")
    /\ body.items.isArray
    /\ \E k \in DOMAIN body.items.elems : BrokenItem(body.items.elems[k])

\* C7: an order in which any item, at any position, has quantity <= 0 or
\* price <= 0 or an empty menu_item_id or menu_item_name is answered 400, and
\* no header or item row is persisted.
C7_BadItemRejected ==
    \A body \in OrderBodies :
        HasBrokenItem(body) =>
            LET out == PostOrder(Db, body)
            IN  out.res.status = 400 /\ SameOrderTables(out.db)

\* the answer in hand is the one given to a request whose second item, after a
\* well-formed first one, has a quantity below 1
C7_Witness ==
    /\ Rejected("Item quantity must be greater than 0")
    /\ Len(orders) >= 1
    /\ \E body \in OrderBodies :
           /\ HasBrokenItem(body)
           /\ Len(body.items.elems) = 2
           /\ ~BrokenItem(body.items.elems[1])
           /\ PostOrder(Db, body).res = res

\* C8: createOrder fails, and creates no order, whenever the customer name is
\* empty after trimming: no create-order request is answered 201 with such a
\* name, and no stored order carries one.
C8_BlankNameRejected ==
    /\ IsCreated => Trim(res.data.customer_name) # <<>>
    /\ \A i \in DOMAIN orders : Trim(orders[i].customer_name) # <<>>

\* C9: every order is created with status pending: the order createOrder
\* returns, and the header it stored, have status pending.
C9_CreatedPending ==
    IsCreated =>
        /\ res.data.status = "pending"
        /\ \E i \in DOMAIN orders :
               orders[i].id = res.data.id /\ orders[i].status = "pending"

\* an order has just been created while an earlier one is past pending
C9_Witness ==
    /\ IsCreated
    /\ Len(orders) = 2
    /\ orders[1].status = "confirmed"

\* C10: for an existing order in any status and any of the six statuses t,
\* updateOrderStatus(id, t) succeeds and the stored status becomes t.
C10_AnyTransition ==
    \A i \in DOMAIN orders : \A t \in ValidStatuses :
        LET out == PutOrderStatus(Db, orders[i].id, [status |-> t])
        IN  /\ out.res.status = 200
            /\ out.res.data.status = t
            /\ out.db.orders[i].status = t
            /\ out.db.orders[i].id = orders[i].id

\* one order is completed, the other has just been set to cancelled
C10_Witness ==
    /\ Len(orders) = 2
    /\ orders[1].status = "completed"
    /\ orders[2].status = "cancelled"
    /\ res.route = PutStatusRoute
    /\ res.status = 200
    /\ res.data.id = orders[2].id
    /\ res.data.status = "cancelled"

\* bodies of the status route whose status is missing, empty or no literal
BadStatus(body) == FalsyText(body, "status") \/ body.status \notin ValidStatuses

\* C11: a status update whose status is missing or outside the six literals
\* is answered 400 and leaves every stored order as it was, whether the id
\* matches an order or not; and every stored status is one of the six
\* literals in every reachable state.
C11_BadStatusRejected ==
    /\ \A id \in OrderIds : \A body \in StatusBodies :
           BadStatus(body) =>
               LET out == PutOrderStatus(Db, id, body)
               IN  /\ out.res.status = 400
                   /\ ~out.res.success
                   /\ out.db.orders = orders
    /\ \A i \in DOMAIN orders : orders[i].status \in ValidStatuses
    /\ (res.route = PutStatusRoute /\ res.status = 200) => res.data.status \in ValidStatuses

\* a status update has just been refused while an order is past pending
C11_Witness ==
    /\ res.route = PutStatusRoute
    /\ res.status = 400
    /\ Len(orders) >= 1
    /\ orders[1].status = "ready"

\* the ids of the stored orders
StoredIds == {orders[i].id : i \in DOMAIN orders}

\* C12: a status update with a valid status on an id that matches no order
\* reports not-found (the query returns null, the route answers 404) and
\* changes no row of orders or order_items.
C12_UnknownIdNotFound ==
    \A id \in OrderIds \ StoredIds : \A t \in ValidStatuses :
        LET q == updateOrderStatus(Db, id, t)
            out == PutOrderStatus(Db, id, [status |-> t])
        IN  /\ q.order = Null
            /\ ~q.threw
            /\ q.db.orders = orders /\ q.db.order_items = order_items
            /\ out.res = Fail(PutStatusRoute, 404, "Order not found")
            /\ SameOrderTables(out.db)

\* an update of an unknown id has just been answered 404 while an order with
\* another id is stored in a status past pending
C12_Witness ==
    /\ res = Fail(PutStatusRoute, 404, "Order not found")
    /\ Len(orders) = 1
    /\ orders[1].status = "preparing"

\* the response is that of a successful status update
StatusUpdated(response) == response.route = PutStatusRoute /\ response.status = 200

\* C13: a successful status update of order id changes only the status and
\* updated_at of that order: its total_price, customer name, notes,
\* created_at and item rows, and every field of every other order, stay as
\* they were.
C13_UpdateFrame ==
    [][(StatusUpdated(res') /\ now' = now) =>
           /\ order_items' = order_items
           /\ menu_items' = menu_items
           /\ DOMAIN orders' = DOMAIN orders
           /\ \A i \in DOMAIN orders :
                  /\ orders[i].id # res'.data.id => orders'[i] = orders[i]
                  /\ orders'[i] = [orders[i] EXCEPT !.status = orders'[i].status,
                                                    !.updated_at = orders'[i].updated_at]
           /\ res'.data.items = ItemsOf(res'.data.id)]_vars

\* the first of two orders, created with notes and two lines, has been
\* updated in a later second than it was created in
C13_Witness ==
    /\ StatusUpdated(res)
    /\ Len(orders) = 2
    /\ res.data.id = orders[1].id
    /\ orders[1].notes = "no onions"
    /\ orders[1].status = "confirmed"
    /\ orders[1].updated_at > orders[1].created_at
    /\ orders[2].status = "pending"
    /\ orders[2].updated_at = orders[2].created_at

\* the ids of the orders of a list
IdsOf(list) == {list[k].id : k \in DOMAIN list}

\* the ids of the stored orders whose status is s
IdsInStatus(s) == {orders[i].id : i \in {j \in DOMAIN orders : orders[j].status = s}}

\* C14: listing by status s returns exactly the orders whose stored status
\* is s, each once and with all its items; an order just created is absent
\* from the completed list, an order just set to completed is in it, and the
\* list route answers with such a list.
C14_ListByStatusExact ==
    /\ \A s \in ValidStatuses : \A list \in getOrdersByStatus(Db, s) :
           /\ IdsOf(list) = IdsInStatus(s)
           /\ Len(list) = Cardinality(IdsInStatus(s))
           /\ \A k \in DOMAIN list :
                  /\ list[k].status = s
                  /\ list[k].items = ItemsOf(list[k].id)
                  /\ list[k].items # <<>>
    /\ IsCreated =>
           \A list \in getOrdersByStatus(Db, "completed") : res.data.id \notin IdsOf(list)
    /\ (StatusUpdated(res) /\ res.data.status = "completed") =>
           \A list \in getOrdersByStatus(Db, "completed") : res.data.id \in IdsOf(list)
    /\ (res.route = GetByStatusRoute /\ res.status = 200) =>
           /\ IdsOf(res.data) = IdsInStatus(res.filter)
           /\ res.count = Cardinality(IdsInStatus(res.filter))

\* the completed list has just been read while one order is completed and
\* the other, created later, is still pending
C14_Witness ==
    /\ res.route = GetByStatusRoute
    /\ res.status = 200
    /\ res.filter = "completed"
    /\ Len(orders) = 2
    /\ IdsOf(res.data) = {orders[1].id}
    /\ orders[2].status = "pending"

\* the position of the order id in a list
PositionOf(list, id) == CHOOSE k \in DOMAIN list : list[k].id = id

\* every two orders of the list are in it newest-created-first: rows are
\* appended to orders as createOrder commits them, one request at a time
NewestFirst(list) ==
    \A a, b \in DOMAIN orders :
        (a < b /\ orders[a].id \in IdsOf(list) /\ orders[b].id \in IdsOf(list)) =>
            PositionOf(list, orders[b].id) < PositionOf(list, orders[a].id)

\* C15: getAllOrders and getOrdersByStatus return orders newest-created-first:
\* an order created by a later createOrder call comes before every order
\* created by an earlier call.
C15_NewestCreatedFirst ==
    /\ \A list \in getAllOrders(Db) : NewestFirst(list)
    /\ \A s \in ValidStatuses : \A list \in getOrdersByStatus(Db, s) : NewestFirst(list)

\* the menu items that rows of order_items reference
ReferencedMenuIds == {order_items[j].menu_item_id : j \in DOMAIN order_items}

\* C16: a menu item that order items reference can still be deleted from the
\* catalog, and deleting it leaves the orders and their item rows unchanged.
C16_ReferencedItemDeletable ==
    \A m \in ReferencedMenuIds \cap DOMAIN menu_items :
        LET out == DeleteMenu(Db, m)
        IN  /\ out.res.status = 200
            /\ m \notin DOMAIN out.db.menu_items
            /\ SameOrderTables(out.db)

\* C17: createOrder does not depend on the catalog: for the same customer and
\* items it succeeds or fails, and persists the item rows, in the catalog of
\* the current state exactly as it would in the seed catalog, also when a
\* submitted menu_item_id matches no menu item.
C17_CatalogIndependent ==
    \A s \in GoodLists :
        LET data == [customer_name |-> <<"J">>, notes |-> NullText]
            here == createOrder(Db, data, s)
            seed == createOrder([Db EXCEPT !.menu_items = menuData], data, s)
        IN  /\ here.threw = seed.threw
            /\ here.db.order_items = seed.db.order_items

\* the request bodies that pass the validation of the create-order route
ValidOrderBodies == {b \in OrderBodies : OrderError(b) = "none"}

\* C18: the stored total_price is not supplied by the client: two
\* create-order requests with the same items that differ in any other field
\* of the request (a total_price, a status, a name, notes) are answered alike
\* and produce orders with the same total_price, the sum over the line items.
C18_TotalNotClientSupplied ==
    \A b1, b2 \in ValidOrderBodies :
        b1.items = b2.items =>
            LET o1 == PostOrder(Db, b1)
                o2 == PostOrder(Db, b2)
            IN  /\ o1.res.status = o2.res.status
                /\ o1.res.status = 201 =>
                       /\ o1.res.data.total_price = o2.res.data.total_price
                       /\ o1.res.data.total_price = LineSum(b1.items.elems)
                       /\ o1.db.orders[Len(o1.db.orders)].total_price
                              = o2.db.orders[Len(o2.db.orders)].total_price

\* an order has just been created from the request that carried its own
\* total_price (99) and status, after an order with the same items from a
\* request that carried none
C18_Witness ==
    /\ IsCreated
    /\ Len(orders) = 2
    /\ res.data.notes = "no onions"
    /\ res.data.total_price = 8
    /\ orders[2].total_price = orders[1].total_price
    /\ orders[1].notes = NullText
    /\ submitted[1] = submitted[2]

\* an order request leaves the browser in this step
RequestSent == call.pc # "sent" /\ call'.pc = "sent"

\* C19: checkout with an empty cart is rejected.  In a step taken from a
\* state whose cart has no lines, no order request is sent, the checkout
\* dialog is not opened and the form cannot be submitted; every order request
\* sent carries the lines of a cart with at least one line, and every order
\* the server persists comes from such a request.
C19_EmptyCartRejected ==
    [][/\ cartItems = <<>> =>
              /\ ~RequestSent
              /\ isCheckoutOpen' => isCheckoutOpen
              /\ ~(isCheckoutOpen /\ ~isSubmitting)
       /\ RequestSent =>
              /\ cartItems # <<>>
              /\ call'.body.items.elems = orderItems(cartItems)
       /\ orders' # orders =>
              /\ call.pc = "sent"
              /\ call.body.items.elems # <<>>
              /\ SelectSeq(order_items',
                           LAMBDA r : r.order_id = orders'[Len(orders')].id) # <<>>]_vars

\* handleCheckoutClick has just refused an empty cart: the drawer is open,
\* the dialog is not, nothing is on its way, and the one order stored is the
\* one placed before the cart was emptied
C19_Witness ==
    /\ cartItems = <<>>
    /\ toast = <<Toast("error", "Your cart is empty")>>
    /\ isCartOpen
    /\ ~isCheckoutOpen
    /\ call = NoCall
    /\ Len(orders) = 1

\* the continuation of a resolved order request runs in this step
SubmitSucceeds == call.pc = "answered" /\ Resolves(call.response) /\ call'.pc = "idle"

\* a handler or an effect of the page runs in this step (the server and the
\* network only move the request)
HandlerRuns ==
    <<cartItems, isCartOpen, isCheckoutOpen, isSubmitting, storage, toast>>'
        # <<cartItems, isCartOpen, isCheckoutOpen, isSubmitting, storage, toast>>

\* C20: on a successful submit the cart is cleared: the step in which
\* handleCheckoutSubmit receives the created order leaves the cart with no
\* lines and the dialog and the drawer closed, and the next thing the page
\* does is to write the empty list to the store.
C20_SuccessClearsCart ==
    [][/\ SubmitSucceeds =>
              /\ cartItems' = <<>>
              /\ ~isCheckoutOpen'
              /\ ~isCartOpen'
       /\ (~Persisted /\ HandlerRuns) =>
              /\ storage' = saveCartToStorage(cartItems)
              /\ cartItems' = cartItems
       /\ (SubmitSucceeds /\ cartItems # <<>>) => ~Persisted']_vars

\* the order has been placed and acknowledged, the cart is empty, and the
\* store holds the empty list where it held the lines of the cart
C20_Witness ==
    /\ toast = <<Toast("success", <<"Order placed successfully! Order ID: ", 1>>),
                 Toast("info", "Cart cleared")>>
    /\ cartItems = <<>>
    /\ storage = saveCartToStorage(<<>>)
    /\ ~isCheckoutOpen
    /\ ~isCartOpen
    /\ ~isSubmitting
    /\ Len(orders) = 1
    /\ Len(ItemsOf(1)) = 2

\* the continuation of an order request that threw runs in this step
SubmitFails == call.pc = "answered" /\ ~Resolves(call.response) /\ call'.pc = "idle"

\* C21: a failed submit leaves the cart alone and is not retried.  The step
\* in which handleCheckoutSubmit catches the error of a request that failed
\* (rejected by the server, or never answered) leaves the cart lines, the
\* store and the orders as they were, shows the error and has no request on
\* its way afterwards; and a request leaves the browser only in a step taken
\* with no request under way, from the open dialog, carrying a submitted form.
C21_FailureKeepsCart ==
    [][/\ SubmitFails =>
              /\ cartItems' = cartItems
              /\ storage' = storage
              /\ orders' = orders /\ order_items' = order_items
              /\ call' = NoCall
              /\ toast' = <<Toast("error", ErrorMessage(call.response))>>
       /\ RequestSent =>
              /\ call = NoCall
              /\ ~isSubmitting
              /\ isCheckoutOpen
              /\ \E values \in FormInputs :
                     FormValid(values) /\ call'.body = SubmitBody(values, cartItems)]_vars

\* the store refused the order (its menu item is gone): the error is shown,
\* both lines of the cart are still there and persisted, nothing is on its
\* way and no order exists
C21_Witness ==
    /\ toast = <<Toast("error", "API request failed: Internal Server Error")>>
    /\ Len(cartItems) = 2
    /\ HasLine(cartItems, "m2")
    /\ storage = saveCartToStorage(cartItems)
    /\ call = NoCall
    /\ ~isSubmitting
    /\ isCheckoutOpen
    /\ res.status = 500
    /\ orders = <<>>

\* the server creates the order of the request in this step
OrderPlaced == call.pc = "sent" /\ call'.pc = "answered" /\ call'.response.status = 201

\* C22: the order created by a checkout reflects the cart at submission.  The
\* request that leaves the browser carries one item per cart line, in cart
\* order, with the line's id, name, quantity and price; and the order the
\* server creates from it, as returned and as stored, has one item per item
\* of the request with that name, price and quantity, status pending, and a
\* total equal to the total of the request's lines, which is the cart total
\* at submission.
C22_OrderReflectsCart ==
    [][/\ RequestSent =>
              LET sent == call'.body.items.elems
              IN  /\ Len(sent) = Len(cartItems)
                  /\ \A k \in DOMAIN cartItems :
                         /\ sent[k].menu_item_id = cartItems[k].id
                         /\ sent[k].menu_item_name = cartItems[k].name
                         /\ sent[k].quantity = cartItems[k].quantity
                         /\ sent[k].price = cartItems[k].price
                  /\ LineSum(sent) = cartTotal(cartItems)
       /\ OrderPlaced =>
              LET sent == call.body.items.elems
                  order == call'.response.data
              IN  /\ order = getOrderById(orders', order_items', order.id)
                  /\ Len(orders') = Len(orders) + 1
                  /\ order.status = "pending"
                  /\ Len(order.items) = Len(sent)
                  /\ \A k \in DOMAIN sent :
                         /\ order.items[k].menu_item_id = sent[k].menu_item_id
                         /\ SameLine(order.items[k], sent[k])
                  /\ order.total_price = LineSum(sent)]_vars

\* the order of a cart of two A and one B has been created and answered,
\* the cart itself still as it was submitted: two items, total 2 x 3 + 5
C22_Witness ==
    /\ call.pc = "answered"
    /\ call.response.status = 201
    /\ Len(cartItems) = 2
    /\ cartItems[1].quantity = 2
    /\ cartItems[2].quantity = 1
    /\ call.response.data.total_price = cartTotal(cartItems)
    /\ call.response.data.total_price = 11
    /\ Len(ItemsOf(call.response.data.id)) = 2
    /\ ItemsOf(call.response.data.id)[1].quantity = 2

\* the positions of the lines of id in a cart
PositionsOf(lines, id) == {k \in DOMAIN lines : lines[k].id = id}

\* C23: addToCart(item).  For the cart of every reachable state and every
\* item the menu can hold: if the cart has a line of the item's id, the
\* result has the same lines in the same order, that line with its quantity
\* one higher and its name and price as they were, every other line as it
\* was; otherwise the result is the cart with one line appended, of quantity
\* 1 and the item's id, name and price.
C23_AddToCart ==
    \A item \in menuItems :
        LET next == addToCart(cartItems, item)
        IN  IF PositionsOf(cartItems, item.id) # {}
            THEN /\ Len(next) = Len(cartItems)
                 /\ \A k \in DOMAIN cartItems :
                        /\ next[k].id = cartItems[k].id
                        /\ next[k].name = cartItems[k].name
                        /\ next[k].price = cartItems[k].price
                        /\ next[k].quantity =
                               cartItems[k].quantity
                                   + (IF cartItems[k].id = item.id THEN 1 ELSE 0)
            ELSE /\ Len(next) = Len(cartItems) + 1
                 /\ SubSeq(next, 1, Len(cartItems)) = cartItems
                 /\ next[Len(next)] = [id |-> item.id, name |-> item.name,
                                       price |-> item.price, quantity |-> 1]

\* item m1 was added as A at 3, then again after it had become A2 at 4: the
\* cart has one line of it, still A at 3, with quantity 2, behind the line of B
C23_Witness ==
    /\ toast = <<Toast("success", <<"Added another ", "A2", " to cart">>)>>
    /\ Len(cartItems) = 2
    /\ cartItems[1] = [id |-> "m2", name |-> "B", price |-> 5, quantity |-> 1]
    /\ cartItems[2] = [id |-> "m1", name |-> "A", price |-> 3, quantity |-> 2]

\* C24: updateQuantity(id, delta).  For the cart of every reachable state,
\* every id and every delta: with no line of that id the result is the cart
\* itself; with a line whose quantity + delta is 0 or less the result is the
\* cart without that line, the other lines as they were and in their order;
\* otherwise the result is the cart with that line's quantity raised by delta
\* and nothing else changed.  And adding an item twice to the empty cart and
\* updating it by -2 gives the empty cart, with total 0 and item count 0.
C24_UpdateQuantity ==
    /\ \A id \in LineIds, delta \in Deltas :
           LET next == updateQuantity(cartItems, id, delta)
               at == PositionsOf(cartItems, id)
           IN  IF at = {} THEN next = cartItems
               ELSE IF \E k \in at : cartItems[k].quantity + delta <= 0
               THEN /\ PositionsOf(next, id) = {}
                    /\ Len(next) = Len(cartItems) - Cardinality(at)
                    /\ next = SelectSeq(cartItems, LAMBDA line : line.id # id)
               ELSE /\ Len(next) = Len(cartItems)
                    /\ \A k \in DOMAIN cartItems :
                           IF k \in at
                           THEN /\ next[k].quantity = cartItems[k].quantity + delta
                                /\ next[k].quantity > 0
                                /\ [next[k] EXCEPT !.quantity = 0]
                                       = [cartItems[k] EXCEPT !.quantity = 0]
                           ELSE next[k] = cartItems[k]
    /\ \A item \in menuItems :
           LET twice == addToCart(addToCart(<<>>, item), item)
               after == updateQuantity(twice, item.id, -2)
           IN  /\ Len(twice) = 1 /\ twice[1].quantity = 2
               /\ after = <<>>
               /\ cartTotal(after) = 0
               /\ cartItemCount(after) = 0

\* A was added twice to the empty cart and its quantity then taken down past
\* 0 in one call: the cart is empty, the store still holds the line of 2
C24_Witness ==
    /\ cartItems = <<>>
    /\ toast = <<Toast("info", "Item removed from cart")>>
    /\ storage = saveCartToStorage(<<[id |-> "m1", name |-> "A", price |-> 3, quantity |-> 2]>>)
    /\ cartTotal(cartItems) = 0
    /\ cartItemCount(cartItems) = 0

\* the sum of quantity over a list of lines
RECURSIVE QuantitySum(_)
QuantitySum(lines) ==
    IF lines = <<>> THEN 0
    ELSE Head(lines).quantity + QuantitySum(Tail(lines))

\* C25: the derived values follow the lines.  In every state reached by
\* addToCart, updateQuantity, removeFromCart and clearCart, cartTotal is the
\* sum of price x quantity and cartItemCount the sum of quantity over the
\* lines of the cart, and total and itemCount of the Cart component, which is
\* rendered with the same lines, are equal to them.
C25_DerivedValues ==
    /\ cartTotal(cartItems) = LineSum(cartItems)
    /\ cartItemCount(cartItems) = QuantitySum(cartItems)
    /\ total(cartItems) = cartTotal(cartItems)
    /\ itemCount(cartItems) = cartItemCount(cartItems)

\* two lines after a removal and two additions: A2 at 4 twice and B at 5
\* once, so the total is 13 and the count 3
C25_Witness ==
    /\ Len(cartItems) = 2
    /\ cartItems[1] = [id |-> "m2", name |-> "B", price |-> 5, quantity |-> 1]
    /\ cartItems[2] = [id |-> "m1", name |-> "A2", price |-> 4, quantity |-> 2]
    /\ cartTotal(cartItems) = 13
    /\ cartItemCount(cartItems) = 3
    /\ Persisted

\* C27: the lines of the cart are well formed.  Starting from the empty cart,
\* in every state reached by addToCart, updateQuantity with any delta,
\* removeFromCart and clearCart every line has a quantity of at least 1 and
\* no two lines have the same id; and what the store holds is such a cart too.
C27_LinesWellFormed ==
    /\ \A k \in DOMAIN cartItems : cartItems[k].quantity >= 1
    /\ \A j, k \in DOMAIN cartItems : cartItems[j].id = cartItems[k].id => j = k
    /\ LET stored == loadCartFromStorage(storage)
       IN  /\ \A k \in DOMAIN stored : stored[k].quantity >= 1
           /\ \A j, k \in DOMAIN stored : stored[j].id = stored[k].id => j = k

\* B has just been added behind the line of A: two lines of different ids,
\* each with quantity 1, while the store still has the cart of before
C27_Witness ==
    /\ Len(cartItems) = 2
    /\ cartItems[1].id = "m1" /\ cartItems[1].quantity = 1
    /\ cartItems[2].id = "m2" /\ cartItems[2].quantity = 1
    /\ storage = saveCartToStorage(<<cartItems[1]>>)
    /\ toast = <<Toast("success", <<"Added ", "B", " to cart">>)>>

\* the cart items is the cart stored or comes from it by one call of one of
\* the four operations of the cart
OneOperationApart(stored, items) ==
    \/ items = stored
    \/ \E item \in menuItems : items = addToCart(stored, item)
    \/ \E id \in LineIds, delta \in Deltas : items = updateQuantity(stored, id, delta)
    \/ \E id \in LineIds : items = removeFromCart(stored, id)
    \/ items = clearCart(stored)

\* C26: cart persistence is write-through.  In every reachable state the
\* cart in memory is the cart the store holds under the key, or differs from
\* it by a single operation: every mutation is written before the next one
\* is applied, so that losing the page loses at most one operation.
C26_WriteThrough ==
    OneOperationApart(loadCartFromStorage(storage), cartItems)

\* an order request is under way: sent, or answered and not yet received by
\* handleCheckoutSubmit
InFlight == call.pc # "idle"

\* C28: the cart mutated during a submission.  A change of the cart while an
\* order request is under way changes neither the request nor the orders;
\* the order the server creates has the lines the request was sent with; and
\* the step in which handleCheckoutSubmit receives the created order empties
\* the cart whatever lines it has by then, those added or changed since the
\* request was sent included.
C28_ClearsLaterLines ==
    [][/\ (InFlight /\ cartItems' # cartItems /\ ~SubmitSucceeds) =>
              /\ call' = call
              /\ orders' = orders /\ order_items' = order_items
       /\ OrderPlaced =>
              LET order == call'.response.data
              IN  /\ Len(order.items) = Len(call.body.items.elems)
                  /\ \A k \in DOMAIN order.items :
                         /\ order.items[k].menu_item_id = call.body.items.elems[k].menu_item_id
                         /\ SameLine(order.items[k], call.body.items.elems[k])
                  /\ submitted'[order.id] = call.body.items.elems
       /\ SubmitSucceeds =>
              /\ cartItems' = <<>>
              /\ orders' = orders /\ order_items' = order_items
              /\ LET id == call.response.data.id
                 IN  /\ Len(ItemsOf(id)) = Len(submitted[id])
                     /\ \A k \in DOMAIN submitted[id] :
                            SameLine(ItemsOf(id)[k], submitted[id][k])]_vars

\* the order was sent with the line of A alone; B was added while the
\* request was under way and was in the cart, and in the store, when the
\* order came back: the cart is empty now, and the order has the line of A only
C28_Witness ==
    /\ cartItems = <<>>
    /\ toast = <<Toast("success", <<"Order placed successfully! Order ID: ", 1>>),
                 Toast("info", "Cart cleared")>>
    /\ Len(loadCartFromStorage(storage)) = 2
    /\ HasLine(loadCartFromStorage(storage), "m2")
    /\ Len(orders) = 1
    /\ Len(ItemsOf(1)) = 1
    /\ ItemsOf(1)[1].menu_item_id = "m1"
    /\ submitted[1] = orderItems(<<loadCartFromStorage(storage)[1]>>)

\* handleCheckoutSubmit receives the outcome of its request in this step
SubmitSettles == call.pc = "answered" /\ call'.pc = "idle"

\* C29: every submission ends its submitting state.  isSubmitting is true
\* exactly while the request of handleCheckoutSubmit is under way; the step
\* in which the handler receives the outcome, the created order or any
\* error, sets it to false; no request is sent while it is true; and, the
\* request being answered or failing, a state with isSubmitting true is
\* always followed by one with isSubmitting false.
C29_SubmittingEnds ==
    /\ [](isSubmitting <=> InFlight)
    /\ [][/\ SubmitSettles => ~isSubmitting'
          /\ RequestSent => (~isSubmitting /\ isSubmitting')
          /\ (isSubmitting /\ isSubmitting') => call'.pc \in {"sent", "answered"}]_vars
    /\ (isSubmitting ~> ~isSubmitting)

\* the request was never answered: the error is shown, isSubmitting is false
\* again and the form, still open over the cart, can be submitted once more
C29_Witness ==
    /\ toast = <<Toast("error", "Failed to fetch")>>
    /\ ~isSubmitting
    /\ call = NoCall
    /\ isCheckoutOpen
    /\ cartItems # <<>>
    /\ orders = <<>>

\* "Add n to Cart" of the page of an item is handled in this step: on that
\* page, with the drawer closed, nothing else changes the cart
AddedFromDetail == page # "/" /\ page' = page /\ ~isCartOpen /\ cartItems' # cartItems

\* C30: the quantity selector of the menu detail page.  The quantity selected
\* is in 1..99 in every reachable state, whatever increments and decrements
\* were made; handleAddToCart with n selected gives, for every item and every
\* reachable cart and n, a cart in which the quantity of the item is n higher
\* (a line being added behind the others if there was none) and the other
\* lines are as they were; and the step that handles it changes the cart in
\* that way and sets the selector back to 1.
C30_QuantitySelector ==
    /\ [](quantity \in 1..99)
    /\ [](\A menuItem \in menuItems :
              LET next == handleAddToCart(cartItems, menuItem, quantity)
                  had == PositionsOf(cartItems, menuItem.id) # {}
              IN  /\ QuantityOf(next, menuItem.id)
                         = QuantityOf(cartItems, menuItem.id) + quantity
                  /\ Len(next) = Len(cartItems) + (IF had THEN 0 ELSE 1)
                  /\ \A k \in DOMAIN cartItems :
                         cartItems[k].id # menuItem.id => next[k] = cartItems[k]
                  /\ Cardinality(PositionsOf(next, menuItem.id)) = 1)
    /\ [][AddedFromDetail =>
              /\ QuantityOf(cartItems', page) = QuantityOf(cartItems, page) + quantity
              /\ \A id \in MenuIds \ {page} :
                     QuantityOf(cartItems', id) = QuantityOf(cartItems, id)
              /\ quantity' = 1]_vars

\* two of A were selected on the page of A and added to a cart that had the
\* line of B only: the line of A was created with quantity 2, behind the line
\* of B, with one toast for each of the two additions, and the selector is
\* back at 1
C30_Witness ==
    /\ page = "m1"
    /\ quantity = 1
    /\ toast = <<Toast("success", <<"Added ", "A", " to cart">>),
                 Toast("success", <<"Added another ", "A", " to cart">>)>>
    /\ Len(cartItems) = 2
    /\ cartItems[1].id = "m2"
    /\ cartItems[2] = [id |-> "m1", name |-> "A", price |-> 3, quantity |-> 2]
    /\ QuantityOf(loadCartFromStorage(storage), "m1") = 0

====
